---- MODULE Spec2Model ----
(***************************************************************************)
(* A model of the mattermost_api client (src/src/client.rs): one Session   *)
(* (struct Mattermost), its REST calls (store_session_token, query, post)  *)
(* and its WebSocket event channel (connect_to_websocket, receive_events,  *)
(* handle_event).                                                          *)
(*                                                                         *)
(* Strings whose bytes matter (tokens, header values, HTTP methods) are    *)
(* sequences of byte values.  URLs are records of scheme, host and path    *)
(* segments.  JSON texts are sequences of lexical tokens.                  *)
(***************************************************************************)
EXTENDS Integers, Sequences, FiniteSets, TLC

VARIABLES
    base_url,             \* Url::parse of the instance_url given to Mattermost::new
    instance_url,         \* Mattermost.instance_url (after Mattermost::new)
    authentication_data,  \* Mattermost.authentication_data
    auth_token,           \* Mattermost.auth_token : Option<String>
    ws_keep_alive,        \* whether the crate is built with feature "ws-keep-alive"
    calls,                \* number of API calls started on this Session
    last_call,            \* the most recent REST call and what it did
    ws_state,             \* where the most recent connect_to_websocket call is
    ws_result,            \* what that call returned
    outbound,             \* frames that call tried to send, in order
    inbox,                \* frames that call read from the stream, in order
    delivered,            \* handler.callback invocations of that call, in order
    stream,               \* the inbound stream: "open", "ended" (it yielded None) or "error"
    login_ok              \* a password login has completed successfully

vars == <<base_url, instance_url, authentication_data, auth_token, ws_keep_alive, calls,
          last_call, ws_state, ws_result, outbound, inbox, delivered,
          stream, login_ok>>

session_vars == <<base_url, instance_url, authentication_data, ws_keep_alive>>
ws_vars == <<ws_state, ws_result, outbound, inbox, delivered, stream>>

-----------------------------------------------------------------------------
(* Bounds of the model.                                                    *)

MaxCalls == 2
MaxFrames == 2
MaxPings == 1

-----------------------------------------------------------------------------
(* Option and Result.                                                      *)

None == [some |-> FALSE]
Some(v) == [some |-> TRUE, v |-> v]
IsSome(o) == o.some

Ok(v) == [ok |-> TRUE, v |-> v]
Err(kind, info) == [ok |-> FALSE, err |-> kind, info |-> info]
Unit == "()"

-----------------------------------------------------------------------------
(* Byte strings.                                                           *)

\* "Bearer " as bytes
BearerPrefix == <<66, 101, 97, 114, 101, 114, 32>>

\* http::header::value::is_visible_ascii
IsVisibleAscii(b) == (b >= 32 /\ b < 127) \/ b = 9

\* http::header::value::is_valid, the test of HeaderValue::from_str
IsValidHeaderByte(b) == (b >= 32 /\ b # 127) \/ b = 9

\* HeaderValue::from_str
HeaderValueFromStr(s) ==
    IF \A i \in 1..Len(s) : IsValidHeaderByte(s[i])
    THEN Ok(s)
    ELSE Err("ReqwestHeaderValueError", Unit)

\* HeaderValue::to_str
HeaderValueToStr(v) ==
    IF \A i \in 1..Len(v) : IsVisibleAscii(v[i])
    THEN Ok(v)
    ELSE Err("ReqwestHeaderError", Unit)

\* http::Method::try_from(&str): a non-empty sequence of token characters
IsMethodChar(b) == b > 32 /\ b < 127
MethodTryFrom(m) ==
    IF Len(m) > 0 /\ \A i \in 1..Len(m) : IsMethodChar(m[i])
    THEN Ok(m)
    ELSE Err("HttpMethodError", Unit)

-----------------------------------------------------------------------------
(* AuthenticationData.                                                     *)

from_password(login_id, password) ==
    [login_id |-> Some(login_id), password |-> Some(password), token |-> None]

from_access_token(token) ==
    [login_id |-> None, password |-> None, token |-> Some(token)]

using_password(ad) == IsSome(ad.password)

using_token(ad) == IsSome(ad.token)

-----------------------------------------------------------------------------
(* URLs (crate url).  A Url is a record: scheme, host, and path as the     *)
(* sequence of its segments (url::Url::path_segments: "/api/v4/" is        *)
(* <<"api", "v4", "">> and "/" is <<"">>).  A cannot-be-a-base URL such as *)
(* mailto:x has no host and an opaque path.  The host field holds the host *)
(* with its port, if any.  A relative reference is a                       *)
(* sequence of tokens: "/", "\\", ".", "..", a scheme with its colon, or a *)
(* name.                                                                   *)

Url(scheme, host, path) ==
    [scheme |-> scheme, host |-> host, path |-> path, cannot_be_a_base |-> FALSE]

OpaqueUrl(scheme, path) ==
    [scheme |-> scheme, host |-> "", path |-> <<path>>, cannot_be_a_base |-> TRUE]

SpecialSchemes == {"http", "https", "ws", "wss", "ftp", "file"}

SchemeTokens == {"http:", "https:"}
SchemeOf(tok) == IF tok = "http:" THEN "http" ELSE "https"

\* what the parser takes for a path separator: "\" counts in special schemes
IsSlash(tok, special) == tok = "/" \/ (special /\ tok = "\\")

\* str::trim_start_matches('/')
RECURSIVE TrimStartMatches(_)
TrimStartMatches(s) ==
    IF s # <<>> /\ Head(s) = "/" THEN TrimStartMatches(Tail(s)) ELSE s

RECURSIVE SkipSlashes(_, _)
SkipSlashes(s, special) ==
    IF s # <<>> /\ IsSlash(Head(s), special)
    THEN SkipSlashes(Tail(s), special)
    ELSE s

\* the segments of a path given as tokens: "a/b" is <<"a","b">>, "a/" is <<"a","">>
RECURSIVE SplitSegments(_, _)
SplitSegments(s, special) ==
    IF s = <<>> THEN <<"">>
    ELSE IF IsSlash(Head(s), special) THEN <<"">> \o SplitSegments(Tail(s), special)
    ELSE IF Len(s) = 1 THEN <<Head(s)>>
    ELSE <<Head(s)>> \o SplitSegments(SubSeq(s, 3, Len(s)), special)

Front(s) == SubSeq(s, 1, Len(s) - 1)

\* removal of "." and ".." segments, as the URL parser does while it reads a path
RECURSIVE RemoveDots(_, _)
RemoveDots(acc, rest) ==
    IF rest = <<>> THEN acc
    ELSE LET seg == Head(rest)
             last == Len(rest) = 1
         IN  IF seg = ".."
             THEN RemoveDots((IF acc = <<>> THEN acc ELSE Front(acc))
                                 \o (IF last THEN <<"">> ELSE <<>>), Tail(rest))
             ELSE IF seg = "."
             THEN RemoveDots(acc \o (IF last THEN <<"">> ELSE <<>>), Tail(rest))
             ELSE RemoveDots(Append(acc, seg), Tail(rest))

\* host and path of what follows "scheme:" or "//" in a special scheme
ParseAuthority(scheme, s) ==
    LET r == SkipSlashes(s, TRUE)
    IN  IF r = <<>> \/ r[1] \in {".", ".."}
        THEN Err("UrlError", "EmptyHost")
        ELSE Ok(Url(scheme, r[1],
                    IF Len(r) = 1 THEN <<"">>
                    ELSE RemoveDots(<<>>, SplitSegments(SubSeq(r, 3, Len(r)), TRUE))))

\* Url::join
Join(base, rel) ==
    LET special == base.scheme \in SpecialSchemes
    IN  IF rel = <<>> THEN Ok(base)
        ELSE IF Head(rel) \in SchemeTokens
        THEN ParseAuthority(SchemeOf(Head(rel)), Tail(rel))
        ELSE IF base.cannot_be_a_base
        THEN Err("UrlError", "RelativeUrlWithCannotBeABaseBase")
        ELSE IF IsSlash(Head(rel), special)
        THEN IF Len(rel) >= 2 /\ IsSlash(rel[2], special)
             THEN ParseAuthority(base.scheme, rel)
             ELSE Ok(Url(base.scheme, base.host,
                         RemoveDots(<<>>, SplitSegments(Tail(rel), special))))
        ELSE Ok(Url(base.scheme, base.host,
                    RemoveDots(<<>>, Front(base.path) \o SplitSegments(rel, special))))

\* Url::set_scheme, for the changes this program asks for
SetScheme(url, scheme) ==
    IF (url.scheme \in SpecialSchemes) = (scheme \in SpecialSchemes)
    THEN [url EXCEPT !.scheme = scheme]
    ELSE url

\* Url::set_path, for a path given by its segments
SetPath(url, path) == [url EXCEPT !.path = path]

ApiV4Path == <<"api", "v4", "">>
RootPath == <<"">>

\* Mattermost::new applied to an already parsed URL: the instance_url it stores
\* a constructor that puts the API path on every URL
NewInstanceUrlAlwaysApiV4(parsed) == SetPath(parsed, ApiV4Path)

NewInstanceUrl(parsed) ==
    IF ~parsed.cannot_be_a_base /\ parsed.path = RootPath
    THEN SetPath(parsed, ApiV4Path)
    ELSE parsed

\* Mattermost::endpoint_url
EndpointUrl(base, endpoint) == Join(base, TrimStartMatches(endpoint))

\* Mattermost::ws_instance_url
WsInstanceUrl(base) ==
    IF base.scheme = "http" THEN Ok(SetScheme(base, "ws"))
    ELSE IF base.scheme = "https" THEN Ok(SetScheme(base, "wss"))
    ELSE Ok(base)

-----------------------------------------------------------------------------
(* JSON texts.  A text is a sequence of lexical tokens; a token has a kind *)
(* k, its characters s and, for a number, its value n.  A JSON object is   *)
(* "{" key value key value ... "}"; anything else is not an object.        *)

Tok(k, s, n) == [k |-> k, s |-> s, n |-> n]
LBrace == Tok("punct", "{", 0)
RBrace == Tok("punct", "}", 0)
Key(s) == Tok("key", s, 0)
Str(s) == Tok("str", s, 0)
Num(n) == Tok("num", "#", n)
Bool(s) == Tok("bool", s, 0)
Null == Tok("null", "null", 0)
Obj(s) == Tok("obj", s, 0)
Word(s) == Tok("word", s, 0)

ValueKinds == {"str", "num", "bool", "null", "obj"}

IsJsonObject(text) ==
    /\ Len(text) >= 2
    /\ text[1] = LBrace
    /\ text[Len(text)] = RBrace
    /\ Len(text) % 2 = 0
    /\ \A i \in 2..(Len(text) - 1) :
          IF i % 2 = 0 THEN text[i].k = "key" ELSE text[i].k \in ValueKinds

HasField(text, name) == \E i \in 2..(Len(text) - 1) : text[i] = Key(name)

Field(text, name) ==
    text[(CHOOSE i \in 2..(Len(text) - 1) : text[i] = Key(name)) + 1]

HasFieldOfKind(text, name, kind) ==
    HasField(text, name) /\ Field(text, name).k = kind

\* the characters of the texts below in which "seq_reply" occurs
SeqReplyTexts == {"seq_reply", "typed seq_reply here"}

\* str::contains("seq_reply") on a whole text: the search sees characters, not
\* the JSON structure
ContainsSeqReply(text) == \E i \in 1..Len(text) : text[i].s \in SeqReplyTexts

I16Min == -32768
I16Max == 32767

\* serde_json::from_str::<MattermostError>
DecodeMattermostError(text) ==
    IF /\ IsJsonObject(text)
       /\ HasFieldOfKind(text, "id", "str")
       /\ HasFieldOfKind(text, "message", "str")
       /\ HasFieldOfKind(text, "request_id", "str")
       /\ HasFieldOfKind(text, "status_code", "num")
       /\ Field(text, "status_code").n >= I16Min
       /\ Field(text, "status_code").n <= I16Max
       /\ (HasField(text, "is_oauth") => Field(text, "is_oauth").k \in {"bool", "null"})
    THEN Ok([id |-> Field(text, "id").s,
             message |-> Field(text, "message").s,
             request_id |-> Field(text, "request_id").s,
             status_code |-> Field(text, "status_code").n,
             is_oauth |-> IF HasFieldOfKind(text, "is_oauth", "bool")
                          THEN Some(Field(text, "is_oauth").s)
                          ELSE None])
    ELSE Err("JsonProcessingError", Unit)

\* a broadcast object with its required channel_id and team_id
BroadcastFields == "channel_id,team_id"

\* serde_json::from_str::<WebsocketEvent>
DecodeWebsocketEvent(text) ==
    IF /\ IsJsonObject(text)
       /\ HasFieldOfKind(text, "event", "str")
       /\ HasField(text, "data")
       /\ HasFieldOfKind(text, "broadcast", "obj")
       /\ Field(text, "broadcast").s = BroadcastFields
       /\ HasFieldOfKind(text, "seq", "num")
       /\ Field(text, "seq").n >= 0
    THEN Ok([event |-> Field(text, "event").s,
             data |-> Field(text, "data"),
             broadcast |-> Field(text, "broadcast").s,
             seq |-> Field(text, "seq").n])
    ELSE Err("JsonProcessingError", Unit)

-----------------------------------------------------------------------------
(* What the environment supplies: construction arguments, call arguments   *)
(* and what the network answers.                                           *)

LoginId == <<117>>
Password == <<112>>

\* personal access tokens: "a", and "x\n", which no header value can hold
StaticTokens == {<<97>>, <<120, 10>>}

\* values of a response's Token header: "b", and "c" followed by byte 200
HeaderValues == {<<98>>, <<99, 200>>}

Credentials ==
    {from_password(LoginId, Password)} \cup {from_access_token(t) : t \in StaticTokens}

\* Url::parse of http://host and mailto:x
ParsedBaseUrls == {Url("http", "host", RootPath), OpaqueUrl("mailto", "x")}

\* "GET" and "G T"
Methods == {<<71, 69, 84>>, <<71, 32, 84>>}

\* "teams", "/teams" and "https://"
Endpoints == {<<"teams">>, <<"/", "teams">>, <<"https:", "/", "/">>}

Statuses == {200, 302, 404}

ErrorBodyFull ==
    <<LBrace, Key("id"), Str("api.error"), Key("message"), Str("m"),
      Key("request_id"), Str("r"), Key("status_code"), Num(404),
      Key("is_oauth"), Bool("false"), RBrace>>

ErrorBodyNoOauth ==
    <<LBrace, Key("id"), Str("api.error"), Key("message"), Str("m"),
      Key("request_id"), Str("r"), Key("status_code"), Num(404), RBrace>>

ErrorBodyBigStatus ==
    <<LBrace, Key("id"), Str("api.error"), Key("message"), Str("m"),
      Key("request_id"), Str("r"), Key("status_code"), Num(70000), RBrace>>

OtherJsonBody == <<LBrace, Key("error"), Str("x"), RBrace>>

NotJsonBody == <<Word("<html>")>>

\* a response body: its text, or a body whose read fails
Bodies ==
    [readable : {TRUE},
     text : {ErrorBodyFull, ErrorBodyNoOauth, ErrorBodyBigStatus,
             OtherJsonBody, NotJsonBody}]
    \cup {[readable |-> FALSE, text |-> <<>>]}

NetError == [kind |-> "error", status |-> 0, body |-> [readable |-> FALSE, text |-> <<>>]]
NetResponse(status, body) == [kind |-> "response", status |-> status, body |-> body]

\* what sending a REST request can yield
NetOutcomes == {NetError} \cup {NetResponse(st, b) : st \in Statuses, b \in Bodies}

\* nothing was sent, so nothing comes back
NoAnswer == [kind |-> "none", status |-> 0, body |-> [readable |-> FALSE, text |-> <<>>]]
NoLoginAnswer == [kind |-> "none", status |-> 0, token |-> None]

LoginStatuses == {200, 401}

\* what sending the login request can yield: an error, or a status and the
\* Token header if there is one
LoginOutcomes ==
    {[kind |-> "error", status |-> 0, token |-> None]}
    \cup {[kind |-> "response", status |-> st, token |-> t] :
            st \in LoginStatuses, t \in {None} \cup {Some(v) : v \in HeaderValues}}

-----------------------------------------------------------------------------
(* The REST calls.                                                         *)

NoCall ==
    [op |-> "none", args |-> <<>>, pre_token |-> None, request |-> None,
     response |-> None, result |-> Ok(Unit)]

Call(op, args, request, response, result) ==
    [op |-> op, args |-> args, pre_token |-> auth_token, request |-> request,
     response |-> response, result |-> result]

Request(method, url, headers) == [method |-> method, url |-> url, headers |-> headers]

PostMethod == <<80, 79, 83, 84>>

\* request_headers as it would be if a missing token gave an empty bearer value
RequestHeadersWithoutToken(token) ==
    LET value == HeaderValueFromStr(BearerPrefix \o (IF IsSome(token) THEN token.v ELSE <<>>))
    IN  IF ~value.ok THEN value
        ELSE Ok([accept |-> "application/json",
                 content_type |-> "application/json",
                 authorization |-> value.v])

\* Mattermost::request_headers
RequestHeaders(token) ==
    IF ~IsSome(token) THEN Err("MissingAuthToken", Unit)
    ELSE LET value == HeaderValueFromStr(BearerPrefix \o token.v)
         IN  IF ~value.ok THEN value
             ELSE Ok([accept |-> "application/json",
                      content_type |-> "application/json",
                      authorization |-> value.v])

\* is_success as it would be if redirects counted as success
IsSuccessOrRedirect(status) == status >= 200 /\ status < 400

\* StatusCode::is_success
IsSuccess(status) == status >= 200 /\ status < 300

\* what query and post make of the answer to the request they sent
ResponseResult(net) ==
    IF net.kind = "error" THEN Err("ReqwestError", Unit)
    ELSE IF ~IsSuccess(net.status)
    THEN IF net.body.readable /\ DecodeMattermostError(net.body.text).ok
         THEN Err("MattermostApiError", DecodeMattermostError(net.body.text).v)
         ELSE Err("StatusCodeError", net.status)
    ELSE IF net.body.readable /\ IsJsonObject(net.body.text)
         THEN Ok(net.body.text)
         ELSE Err("ReqwestError", Unit)

\* a call's slot in last_call once the request has been sent
Sent(op, args, request, net) ==
    Call(op, args, Some(request),
         IF net.kind = "error" THEN None ELSE Some(net),
         ResponseResult(net))

\* Mattermost::query up to the sending: the request it builds, or its error
QueryRequest(method, endpoint) ==
    LET url == EndpointUrl(instance_url, endpoint)
        m == MethodTryFrom(method)
        headers == RequestHeaders(auth_token)
    IN  IF ~url.ok THEN url
        ELSE IF ~m.ok THEN m
        ELSE IF ~headers.ok THEN headers
        ELSE Ok(Request(m.v, url.v, headers.v))

\* Mattermost::query
QueryCall(method, endpoint, net) ==
    LET request == QueryRequest(method, endpoint)
    IN  IF ~request.ok THEN Call("query", <<method, endpoint>>, None, None, request)
        ELSE Sent("query", <<method, endpoint>>, request.v, net)

\* Mattermost::post up to the sending: the request it builds, or its error
PostRequest(endpoint) ==
    LET url == EndpointUrl(instance_url, endpoint)
        headers == RequestHeaders(auth_token)
    IN  IF ~url.ok THEN url
        ELSE IF ~headers.ok THEN headers
        ELSE Ok(Request(PostMethod, url.v, headers.v))

\* Mattermost::post
PostCall(endpoint, net) ==
    LET request == PostRequest(endpoint)
    IN  IF ~request.ok THEN Call("post", <<PostMethod, endpoint>>, None, None, request)
        ELSE Sent("post", <<PostMethod, endpoint>>, request.v, net)

LoginEndpoint == <<"users", "/", "login">>

\* store_session_token as it would be without its test of using_token
LoginRequestWithoutTokenTest ==
    LET url == Join(instance_url, LoginEndpoint)
    IN  IF ~url.ok THEN url
        ELSE Ok(Some([method |-> PostMethod, url |-> url.v,
                      json |-> [login_id |-> authentication_data.login_id,
                                password |-> authentication_data.password]]))

\* Mattermost::store_session_token up to the sending: the login request, Ok(None)
\* when there is nothing to send, or its error
LoginRequest ==
    LET url == Join(instance_url, LoginEndpoint)
    IN  IF using_token(authentication_data) THEN Ok(None)
        ELSE IF ~url.ok THEN url
        ELSE Ok(Some([method |-> PostMethod, url |-> url.v,
                      json |-> [login_id |-> authentication_data.login_id.v,
                                password |-> authentication_data.password.v]]))

\* Mattermost::store_session_token: the call's slot in last_call
LoginCall(net) ==
    LET request == LoginRequest
        token == HeaderValueToStr(net.token.v)
    IN  IF ~request.ok THEN Call("store_session_token", <<>>, None, None, request)
        ELSE IF ~IsSome(request.v)
        THEN Call("store_session_token", <<>>, None, None, Ok(Unit))
        ELSE IF net.kind = "error"
        THEN Call("store_session_token", <<>>, request.v, None, Err("ReqwestError", Unit))
        ELSE IF ~IsSome(net.token)
        THEN Call("store_session_token", <<>>, request.v, Some(net),
                  Err("CouldNotGetToken", net.status))
        ELSE IF ~token.ok
        THEN Call("store_session_token", <<>>, request.v, Some(net), token)
        ELSE Call("store_session_token", <<>>, request.v, Some(net), Ok(Unit))

\* store_session_token as it would be if a failed login cleared the token
LoginTokenClearedOnFailure(net) ==
    IF using_token(authentication_data) THEN auth_token
    ELSE IF LoginCall(net).result.ok THEN Some(HeaderValueToStr(net.token.v).v)
    ELSE None

\* store_session_token as it would be if it stored the header before converting it
LoginTokenFromAnyHeader(net) ==
    IF /\ net.kind = "response"
       /\ IsSome(net.token)
    THEN Some(net.token.v)
    ELSE auth_token

\* Mattermost::store_session_token: the bearer token it leaves
LoginToken(net) ==
    IF /\ ~using_token(authentication_data)
       /\ LoginCall(net).result.ok
    THEN Some(HeaderValueToStr(net.token.v).v)
    ELSE auth_token

-----------------------------------------------------------------------------
(* The state after Mattermost::new, and the calls as actions.  While       *)
(* connect_to_websocket runs it holds the Session exclusively (&mut self), *)
(* so no other call starts before it has returned.  The WebSocket          *)
(* variables describe the most recent connect_to_websocket call and        *)
(* last_call the most recent REST call, whichever call came last.          *)

Init ==
    /\ base_url \in ParsedBaseUrls
    /\ instance_url = NewInstanceUrl(base_url)
    /\ authentication_data \in Credentials
    /\ auth_token = authentication_data.token
    /\ ws_keep_alive \in BOOLEAN
    /\ calls = 0
    /\ last_call = NoCall
    /\ ws_state = "Disconnected"
    /\ ws_result = None
    /\ outbound = <<>>
    /\ inbox = <<>>
    /\ delivered = <<>>
    /\ stream = "open"
    /\ login_ok = FALSE

\* the network answers a request that was sent, and only that
AnswersTo(request) == IF request.ok THEN NetOutcomes ELSE {NoAnswer}
LoginAnswersTo(request) ==
    IF request.ok /\ IsSome(request.v) THEN LoginOutcomes ELSE {NoLoginAnswer}

CanCall ==
    /\ calls < MaxCalls
    /\ ws_state \in {"Disconnected", "Closed", "Failed"}

NoConnection ==
    /\ ws_state' = "Disconnected"
    /\ ws_result' = None
    /\ outbound' = <<>>
    /\ inbox' = <<>>
    /\ delivered' = <<>>
    /\ stream' = "open"

StoreSessionToken(net) ==
    /\ CanCall
    /\ calls' = calls + 1
    /\ last_call' = LoginCall(net)
    /\ auth_token' = LoginToken(net)
    /\ login_ok' = (login_ok \/ (~using_token(authentication_data) /\ LoginCall(net).result.ok))
    /\ NoConnection
    /\ UNCHANGED session_vars

Query(method, endpoint, net) ==
    /\ CanCall
    /\ calls' = calls + 1
    /\ last_call' = QueryCall(method, endpoint, net)
    /\ NoConnection
    /\ UNCHANGED <<session_vars, auth_token, login_ok>>

Post(endpoint, net) ==
    /\ CanCall
    /\ calls' = calls + 1
    /\ last_call' = PostCall(endpoint, net)
    /\ NoConnection
    /\ UNCHANGED <<session_vars, auth_token, login_ok>>

-----------------------------------------------------------------------------
(* WebSocket messages (tungstenite::Message) and the frames a server may   *)
(* send.                                                                   *)

TextMessage(text) == [type |-> "Text", text |-> text]
CloseMessage == [type |-> "Close", text |-> <<>>]
BinaryMessage == [type |-> "Binary", text |-> <<>>]
PingMessage == [type |-> "Ping", text |-> <<>>]

EventText(event, data) ==
    <<LBrace, Key("event"), Str(event), Key("data"), data,
      Key("broadcast"), Obj(BroadcastFields), Key("seq"), Num(2), RBrace>>

\* {"event":"hello","data":null,...}
HelloText == EventText("hello", Null)

\* a posted event whose message text mentions seq_reply
MentionText == EventText("posted", Str("typed seq_reply here"))

\* the reply to a frame this client sent: {"status":"OK","seq_reply":1}
ReplyText == <<LBrace, Key("status"), Str("OK"), Key("seq_reply"), Num(1), RBrace>>

\* JSON that lacks fields of WebsocketEvent
IncompleteText == <<LBrace, Key("event"), Str("hello"), RBrace>>

InboundMessages ==
    {TextMessage(t) : t \in {HelloText, MentionText, ReplyText, IncompleteText}}
    \cup {CloseMessage, BinaryMessage}

\* the frame connect_to_websocket sends after the handshake
AuthenticationChallenge(token) ==
    TextMessage(<<LBrace, Key("seq"), Num(1),
                  Key("action"), Str("authentication_challenge"),
                  Key("data"), Tok("obj", "token", token), RBrace>>)

\* handle_event as it would be if a close frame did not end the loop
HandleEventCloseContinues(message) ==
    IF message.type = "Text" /\ ContainsSeqReply(message.text)
    THEN [callback |-> None, result |-> Ok(FALSE)]
    ELSE IF message.type = "Text"
    THEN LET as_struct == DecodeWebsocketEvent(message.text)
         IN  IF as_struct.ok
             THEN [callback |-> Some(as_struct.v), result |-> Ok(FALSE)]
             ELSE [callback |-> None, result |-> as_struct]
    ELSE [callback |-> None, result |-> Ok(FALSE)]

\* Mattermost::handle_event: the event it hands to handler.callback, if any, and
\* what it returns
HandleEvent(message) ==
    IF message.type = "Text" /\ ContainsSeqReply(message.text)
    THEN [callback |-> None, result |-> Ok(FALSE)]
    ELSE IF message.type = "Text"
    THEN LET as_struct == DecodeWebsocketEvent(message.text)
         IN  IF as_struct.ok
             THEN [callback |-> Some(as_struct.v), result |-> Ok(FALSE)]
             ELSE [callback |-> None, result |-> as_struct]
    ELSE IF message.type = "Close"
    THEN [callback |-> None, result |-> Ok(TRUE)]
    ELSE [callback |-> None, result |-> Ok(FALSE)]

-----------------------------------------------------------------------------
(* connect_to_websocket, one action for each stretch between two awaits.   *)

\* the URL connect_to_websocket connects to
WebsocketUrl ==
    LET ws == WsInstanceUrl(instance_url)
    IN  IF ws.ok THEN Join(ws.v, <<"websocket">>) ELSE ws

\* connect_to_websocket up to the end of the handshake
Connect(handshake_ok) ==
    /\ CanCall
    /\ calls' = calls + 1
    /\ last_call' = NoCall
    /\ outbound' = <<>>
    /\ inbox' = <<>>
    /\ delivered' = <<>>
    /\ stream' = "open"
    /\ IF ~WebsocketUrl.ok
       THEN ws_state' = "Failed" /\ ws_result' = Some(WebsocketUrl)
       ELSE IF ~handshake_ok
       THEN ws_state' = "Failed" /\ ws_result' = Some(Err("WebsocketError", "connect"))
       ELSE ws_state' = "Authenticating" /\ ws_result' = None
    /\ UNCHANGED <<session_vars, auth_token, login_ok>>

\* connect_to_websocket from the handshake to the start of receive_events
SendAuthenticationChallenge(send_ok) ==
    /\ ws_state = "Authenticating"
    /\ IF ~IsSome(auth_token)
       THEN /\ ws_state' = "Panicked"
            /\ UNCHANGED <<ws_result, outbound>>
       ELSE /\ outbound' = Append(outbound,
                                  [message |-> AuthenticationChallenge(auth_token.v),
                                   sent |-> send_ok,
                                   read |-> Len(inbox),
                                   called |-> Len(delivered)])
            /\ IF send_ok
               THEN ws_state' = "Streaming" /\ UNCHANGED ws_result
               ELSE ws_state' = "Failed" /\ ws_result' = Some(Err("WebsocketError", "send"))
    /\ UNCHANGED <<session_vars, auth_token, login_ok, calls, last_call, inbox,
                   delivered, stream>>

\* receive_events: stream.next() yields a message, handle_event handles it
ReceiveMessage(message) ==
    /\ ws_state = "Streaming"
    /\ stream = "open"
    /\ Len(inbox) < MaxFrames
    /\ inbox' = Append(inbox, message)
    /\ LET handled == HandleEvent(message)
       IN  /\ delivered' = IF IsSome(handled.callback)
                           THEN Append(delivered, [frame |-> Len(inbox) + 1,
                                                   event |-> handled.callback.v])
                           ELSE delivered
           /\ IF ~handled.result.ok
              THEN ws_state' = "Failed" /\ ws_result' = Some(handled.result)
              ELSE IF handled.result.v
              THEN ws_state' = "Closed" /\ ws_result' = Some(Ok(Unit))
              ELSE UNCHANGED <<ws_state, ws_result>>
    /\ UNCHANGED <<session_vars, auth_token, login_ok, calls, last_call, outbound,
                   stream>>

\* receive_events as it would be if a receive error were logged and the loop went on
ReceiveErrorSwallowed ==
    /\ ws_state = "Streaming"
    /\ stream = "open"
    /\ stream' = "error"
    /\ UNCHANGED <<session_vars, auth_token, login_ok, calls, last_call, ws_state,
                   ws_result, outbound, inbox, delivered>>

\* receive_events: stream.next() yields an error
ReceiveError ==
    /\ ws_state = "Streaming"
    /\ stream = "open"
    /\ stream' = "error"
    /\ ws_state' = "Failed"
    /\ ws_result' = Some(Err("WebsocketError", "receive"))
    /\ UNCHANGED <<session_vars, auth_token, login_ok, calls, last_call, outbound,
                   inbox, delivered>>

\* receive_events: stream.next() yields None, and the loop goes round
StreamEnd ==
    /\ ws_state = "Streaming"
    /\ stream = "open"
    /\ stream' = "ended"
    /\ UNCHANGED <<session_vars, auth_token, login_ok, calls, last_call, ws_state,
                   ws_result, outbound, inbox, delivered>>

Pings == {i \in 1..Len(outbound) : outbound[i].message.type = "Ping"}

\* a keep-alive loop that returns the ping's send error
PingTickFatal(send_ok) ==
    /\ ws_keep_alive
    /\ ws_state = "Streaming"
    /\ Cardinality(Pings) < MaxPings
    /\ outbound' = Append(outbound, [message |-> PingMessage,
                                     sent |-> send_ok,
                                     read |-> Len(inbox),
                                     called |-> Len(delivered)])
    /\ IF send_ok
       THEN UNCHANGED <<ws_state, ws_result>>
       ELSE ws_state' = "Failed" /\ ws_result' = Some(Err("WebsocketError", "send"))
    /\ UNCHANGED <<session_vars, auth_token, login_ok, calls, last_call, inbox,
                   delivered, stream>>

\* a keep-alive loop whose timer is looked at only while the stream yields
PingTickOnlyWhileOpen(send_ok) ==
    /\ ws_keep_alive
    /\ ws_state = "Streaming"
    /\ stream = "open"
    /\ Cardinality(Pings) < MaxPings
    /\ outbound' = Append(outbound, [message |-> PingMessage,
                                     sent |-> send_ok,
                                     read |-> Len(inbox),
                                     called |-> Len(delivered)])
    /\ UNCHANGED <<session_vars, auth_token, login_ok, calls, last_call, ws_state,
                   ws_result, inbox, delivered, stream>>

\* receive_events with ws-keep-alive: ping_interval.tick() wins the select
PingTick(send_ok) ==
    /\ ws_keep_alive
    /\ ws_state = "Streaming"
    /\ Cardinality(Pings) < MaxPings
    /\ outbound' = Append(outbound, [message |-> PingMessage,
                                     sent |-> send_ok,
                                     read |-> Len(inbox),
                                     called |-> Len(delivered)])
    /\ UNCHANGED <<session_vars, auth_token, login_ok, calls, last_call, ws_state,
                   ws_result, inbox, delivered, stream>>

Next ==
    \/ \E net \in LoginAnswersTo(LoginRequest) : StoreSessionToken(net)
    \/ \E method \in Methods, endpoint \in Endpoints :
          \E net \in AnswersTo(QueryRequest(method, endpoint)) :
              Query(method, endpoint, net)
    \/ \E endpoint \in Endpoints :
          \E net \in AnswersTo(PostRequest(endpoint)) : Post(endpoint, net)
    \/ \E handshake_ok \in BOOLEAN : Connect(handshake_ok)
    \/ \E send_ok \in BOOLEAN : SendAuthenticationChallenge(send_ok)
    \/ \E message \in InboundMessages : ReceiveMessage(message)
    \/ ReceiveError
    \/ StreamEnd
    \/ \E send_ok \in BOOLEAN : PingTick(send_ok)

Spec == Init /\ [][Next]_vars

\* tokio::select! looks at its branches in random order on every turn of the
\* loop and a due tick stays due until taken (client.rs:376-392), so a tick
\* that is due is taken sooner or later
KeepAliveFairness == WF_vars(\E send_ok \in BOOLEAN : PingTick(send_ok))

SpecLive == Init /\ [][Next]_vars /\ KeepAliveFairness

-----------------------------------------------------------------------------
(* Mattermost::new and endpoint_url as functions of their arguments: the   *)
(* constructor's argument ranges over default and custom base URLs, the    *)
(* endpoint over relative references of every shape.                       *)

\* Url::parse of: http://host, https://host:8065/, http://host/ipa/v5/,
\* https://host/ipa/v5, mailto:x
UrlInputs ==
    {Url("http", "host", RootPath),
     Url("https", "host:8065", RootPath),
     Url("http", "host", <<"ipa", "v5", "">>),
     Url("https", "host", <<"ipa", "v5">>),
     OpaqueUrl("mailto", "x")}

\* "", teams, /teams, //teams, teams/x, ../teams, \\evil, https://evil/x
EndpointInputs ==
    {<<>>,
     <<"teams">>,
     <<"/", "teams">>,
     <<"/", "/", "teams">>,
     <<"teams", "/", "x">>,
     <<"..", "/", "teams">>,
     <<"\\", "\\", "evil">>,
     <<"https:", "/", "/", "evil", "/", "x">>}

\* Mattermost::new has parsed its argument (client.rs:95) and not yet
\* looked at the path
InitUrl ==
    /\ base_url \in UrlInputs
    /\ instance_url = base_url
    /\ authentication_data \in Credentials
    /\ auth_token = authentication_data.token
    /\ ws_keep_alive \in BOOLEAN
    /\ calls = 0
    /\ last_call = [NoCall EXCEPT !.op = "Url::parse"]
    /\ ws_state = "Disconnected"
    /\ ws_result = None
    /\ outbound = <<>>
    /\ inbox = <<>>
    /\ delivered = <<>>
    /\ stream = "open"
    /\ login_ok = FALSE

\* the rest of Mattermost::new
New ==
    /\ last_call.op = "Url::parse"
    /\ instance_url' = NewInstanceUrl(base_url)
    /\ last_call' = Call("new", <<base_url>>, None, None, Ok(Unit))
    /\ UNCHANGED <<base_url, authentication_data, ws_keep_alive, auth_token,
                   calls, login_ok>>
    /\ UNCHANGED ws_vars

\* self.endpoint_url(endpoint) on the constructed Mattermost
EndpointUrlCall(endpoint) ==
    /\ last_call.op # "Url::parse"
    /\ last_call' = Call("endpoint_url", <<endpoint>>, None, None,
                         EndpointUrl(instance_url, endpoint))
    /\ UNCHANGED <<auth_token, calls, login_ok>>
    /\ UNCHANGED session_vars
    /\ UNCHANGED ws_vars

NextUrl ==
    \/ New
    \/ \E endpoint \in EndpointInputs : EndpointUrlCall(endpoint)

SpecUrl == InitUrl /\ [][NextUrl]_vars

-----------------------------------------------------------------------------
(* The claims.                                                             *)

\* a reply frame in the protocol's sense: a JSON object with a seq_reply field
IsReplyFrame(text) == IsJsonObject(text) /\ HasField(text, "seq_reply")

\* the handler invocations made for the i-th frame read
CallsFor(i) == {j \in 1..Len(delivered) : delivered[j].frame = i}

LastMessage == inbox[Len(inbox)]

TransportFailure == Some(Err("WebsocketError", "receive"))
SendFailure == Some(Err("WebsocketError", "send"))

\* C1: a text frame without reply marker that does not parse as an event leaves
\* the receive loop in Streaming: connect_to_websocket does not return on it.
C1_ParseFailureKeepsStreaming ==
    (/\ inbox # <<>>
     /\ LastMessage.type = "Text"
     /\ ~IsReplyFrame(LastMessage.text)
     /\ ~DecodeWebsocketEvent(LastMessage.text).ok
     /\ stream = "open")
    => (ws_state = "Streaming" /\ ws_result = None)

\* C2: every text frame read that is a reply frame causes no handler invocation,
\* and every one that is a valid event and no reply frame causes exactly one,
\* whatever its data payload holds.
C2_HandlerOncePerEvent ==
    \A i \in 1..Len(inbox) :
        inbox[i].type = "Text" =>
            /\ IsReplyFrame(inbox[i].text) => Cardinality(CallsFor(i)) = 0
            /\ (~IsReplyFrame(inbox[i].text) /\ DecodeWebsocketEvent(inbox[i].text).ok)
                  => Cardinality(CallsFor(i)) = 1

C3_CloseInv ==
    \A i \in 1..Len(inbox) :
        inbox[i].type = "Close" =>
            /\ i = Len(inbox)
            /\ ws_state = "Closed"
            /\ ws_result = Some(Ok(Unit))
            /\ CallsFor(i) = {}

\* C3: a close frame is the last frame read, connect_to_websocket returns Ok
\* on it without invoking the handler for it, and while that call stays
\* returned the handler is not invoked and no frame is read.
C3_CloseEndsLoop ==
    /\ []C3_CloseInv
    /\ [][(ws_state = "Closed" /\ ws_state' = "Closed")
            => (delivered' = delivered /\ inbox' = inbox)]_vars

C3_Witness ==
    /\ ws_state = "Closed"
    /\ Len(inbox) = 2
    /\ LastMessage.type = "Close"
    /\ Len(delivered) = 1

C4_FailedInv ==
    stream = "error" => (ws_state = "Failed" /\ ws_result = TransportFailure)

\* C4: when reading the next frame yields a transport error, the call returns
\* that error (Failed), the handler is not invoked for it, and afterwards no
\* frame is read and the handler is not invoked.
C4_TransportErrorEndsLoop ==
    /\ []C4_FailedInv
    /\ [][stream' = "error" => (delivered' = delivered /\ inbox' = inbox)]_vars

C4_Witness ==
    /\ stream = "error"
    /\ ws_keep_alive
    /\ Len(inbox) = 2
    /\ Len(delivered) = 1
    /\ Pings # {}

\* the call is past the handshake and past the sending of the challenge
PastAuthentication ==
    \/ ws_state \in {"Streaming", "Closed", "Panicked"}
    \/ /\ ws_state = "Failed"
       /\ ws_result.v.err # "UrlError"
       /\ ws_result.v.info # "connect"

Challenges ==
    {i \in 1..Len(outbound) :
        /\ outbound[i].message.type = "Text"
        /\ HasField(outbound[i].message.text, "action")
        /\ Field(outbound[i].message.text, "action") = Str("authentication_challenge")}

\* C5: once the handshake has succeeded, connect_to_websocket sends exactly one
\* authentication challenge (seq 1, the session's bearer token), before any
\* frame is read or the handler invoked; if the send fails the receive loop is
\* not entered and the error is returned.
C5_OneAuthenticationChallenge ==
    PastAuthentication =>
        /\ Challenges = {1}
        /\ outbound[1].message = AuthenticationChallenge(auth_token.v)
        /\ Field(outbound[1].message.text, "seq") = Num(1)
        /\ outbound[1].read = 0
        /\ outbound[1].called = 0
        /\ ~outbound[1].sent =>
              (ws_state = "Failed" /\ ws_result = SendFailure /\ inbox = <<>>)

LoginResponse == last_call.response.v

\* C7: with password credentials, store_session_token stores exactly the value
\* of the response's Token header when the header is present; when it is absent
\* the call fails with CouldNotGetToken(status); on that failure or a failed
\* HTTP call the stored token is unchanged.
C7_TokenHeaderStored ==
    (last_call.op = "store_session_token" /\ using_password(authentication_data)) =>
        IF IsSome(last_call.response)
        THEN IF IsSome(LoginResponse.token)
             THEN /\ last_call.result = Ok(Unit)
                  /\ auth_token = Some(LoginResponse.token.v)
             ELSE /\ last_call.result = Err("CouldNotGetToken", LoginResponse.status)
                  /\ auth_token = last_call.pre_token
        ELSE /\ ~last_call.result.ok
             /\ auth_token = last_call.pre_token

\* C7 as amended: the header's value is stored when the header is present and
\* all its bytes are visible ASCII (or tab); a header with any other byte fails
\* the call with ReqwestHeaderError; an absent header fails it with
\* CouldNotGetToken(status); every failure leaves the stored token unchanged.
C7_TokenHeaderStoredIfAscii ==
    (last_call.op = "store_session_token" /\ using_password(authentication_data)) =>
        IF IsSome(last_call.response)
        THEN IF IsSome(LoginResponse.token)
             THEN IF \A i \in 1..Len(LoginResponse.token.v) :
                         \/ LoginResponse.token.v[i] \in 32..126
                         \/ LoginResponse.token.v[i] = 9
                  THEN /\ last_call.result = Ok(Unit)
                       /\ auth_token = Some(LoginResponse.token.v)
                  ELSE /\ last_call.result = Err("ReqwestHeaderError", Unit)
                       /\ auth_token = last_call.pre_token
             ELSE /\ last_call.result = Err("CouldNotGetToken", LoginResponse.status)
                  /\ auth_token = last_call.pre_token
        ELSE /\ ~last_call.result.ok
             /\ auth_token = last_call.pre_token

\* a second login, whose Token header holds a byte that is not ASCII, after a first
\* one that stored a token
C7_Witness ==
    /\ last_call.op = "store_session_token"
    /\ using_password(authentication_data)
    /\ calls = 2
    /\ IsSome(last_call.pre_token)
    /\ IsSome(last_call.response)
    /\ LoginResponse.token = Some(<<99, 200>>)
    /\ auth_token = last_call.pre_token

\* C6: with token credentials store_session_token returns Ok, sends no login
\* request and leaves the bearer token equal to the token given at
\* construction, however often it is called.
C6_TokenLoginIsNoOp ==
    using_token(authentication_data) =>
        /\ auth_token = authentication_data.token
        /\ last_call.op = "store_session_token" =>
              /\ last_call.result = Ok(Unit)
              /\ last_call.request = None
              /\ last_call.response = None
              /\ last_call.pre_token = auth_token

C6_Witness ==
    /\ using_token(authentication_data)
    /\ last_call.op = "store_session_token"
    /\ calls = 2
    /\ ~instance_url.cannot_be_a_base

C8_TokenInv ==
    IsSome(auth_token) => (using_token(authentication_data) \/ login_ok)

\* C8: the bearer token is None unless a static token was given at construction
\* or a password login has succeeded; only a successful password login changes it.
C8_TokenOnlyFromLogin ==
    /\ []C8_TokenInv
    /\ [][auth_token' # auth_token =>
             /\ ~using_token(authentication_data)
             /\ last_call'.op = "store_session_token"
             /\ last_call'.result = Ok(Unit)
             /\ calls' = calls + 1]_vars

\* a token obtained by login is still there after a WebSocket connection
C8_Witness ==
    /\ login_ok
    /\ IsSome(auth_token)
    /\ ws_state = "Closed"

IsRestCall == last_call.op \in {"query", "post"}

CarriesBearer ==
    IsSome(last_call.request) =>
        /\ IsSome(last_call.pre_token)
        /\ last_call.pre_token = auth_token
        /\ last_call.request.v.headers.authorization = BearerPrefix \o auth_token.v

\* C9: a query or post made while no bearer token is held fails with
\* MissingAuthToken and sends no request; one made while a token is held
\* carries Authorization: Bearer <token> with the stored token.
C9_MissingTokenFails ==
    IsRestCall =>
        /\ ~IsSome(last_call.pre_token) =>
              /\ last_call.request = None
              /\ last_call.result = Err("MissingAuthToken", Unit)
        /\ CarriesBearer

\* C9 as amended: a query or post made while no bearer token is held sends no
\* request and fails: with the UrlError of a failed join of the endpoint, else
\* (query) with HttpMethodError for an invalid method string, else with
\* MissingAuthToken; every request that is sent carries Authorization: Bearer
\* <token> with the stored token.
C9_MissingTokenSendsNothing ==
    IsRestCall =>
        /\ ~IsSome(last_call.pre_token) =>
              /\ last_call.request = None
              /\ ~last_call.result.ok
              /\ LET method == last_call.args[1]
                     endpoint == last_call.args[2]
                     joins == EndpointUrl(instance_url, endpoint).ok
                     valid == Len(method) > 0
                              /\ \A i \in 1..Len(method) : method[i] \in 33..126
                 IN  last_call.result.err =
                        IF ~joins THEN "UrlError"
                        ELSE IF ~valid THEN "HttpMethodError"
                        ELSE "MissingAuthToken"
        /\ CarriesBearer

C9_Witness ==
    /\ last_call.op = "query"
    /\ ~IsSome(auth_token)
    /\ last_call.result = Err("HttpMethodError", Unit)
    /\ login_ok = FALSE
    /\ calls = 2

\* C10: a query or post whose response has a status outside 200..299 fails:
\* with MattermostApiError and the decoded fields if the body decodes as the
\* structured error, with StatusCodeError and the status otherwise.
C10_NonSuccessFails ==
    (IsRestCall /\ IsSome(last_call.response)
       /\ ~(last_call.response.v.status \in 200..299)) =>
        LET body == last_call.response.v.body
        IN  /\ ~last_call.result.ok
            /\ IF body.readable /\ DecodeMattermostError(body.text).ok
               THEN /\ last_call.result.err = "MattermostApiError"
                    /\ last_call.result.info = DecodeMattermostError(body.text).v
               ELSE /\ last_call.result.err = "StatusCodeError"
                    /\ last_call.result.info = last_call.response.v.status

C10_Witness ==
    /\ last_call.op = "post"
    /\ IsSome(last_call.response)
    /\ last_call.response.v.status = 404
    /\ last_call.response.v.body.text = ErrorBodyNoOauth
    /\ last_call.result.err = "MattermostApiError"
    /\ last_call.result.info.is_oauth = None


-----------------------------------------------------------------------------
(* The URL claims, under SpecUrl.                                          *)

\* a path's segments without the empty one a trailing slash leaves
PathPrefix(path) ==
    IF path # <<>> /\ path[Len(path)] = "" THEN Front(path) ELSE path

\* the names of an endpoint path, its slashes left out
EndpointNames(endpoint) == SelectSeq(endpoint, LAMBDA tok : tok # "/")

EndpointUrlCalled == last_call.op = "endpoint_url"

\* C11: whatever base URL Mattermost::new accepted and whatever endpoint
\* path is given, endpoint_url yields a URL whose path is the base URL's
\* path followed by the endpoint path (the API-version prefix is neither
\* dropped nor duplicated).
C11_PathIsBaseThenEndpoint ==
    EndpointUrlCalled =>
        /\ last_call.result.ok
        /\ PathPrefix(last_call.result.v.path) =
              PathPrefix(instance_url.path) \o EndpointNames(last_call.args[1])

\* Url::path() is "/"
HasRootPath(url) == ~url.cannot_be_a_base /\ url.path = RootPath

Constructed == last_call.op # "Url::parse"

\* C12: Mattermost::new gives a base URL whose path is the root path the
\* path /api/v4/, keeps every other path as it was given, and never changes
\* scheme, host or port.
C12_NewNormalizesRootPath ==
    Constructed =>
        /\ instance_url.scheme = base_url.scheme
        /\ instance_url.host = base_url.host
        /\ instance_url.cannot_be_a_base = base_url.cannot_be_a_base
        /\ HasRootPath(base_url) => instance_url.path = ApiV4Path
        /\ ~HasRootPath(base_url) => instance_url.path = base_url.path

C12_Witness ==
    /\ last_call.op = "new"
    /\ HasRootPath(base_url)
    /\ base_url.host = "host:8065"
    /\ instance_url = Url("https", "host:8065", ApiV4Path)

-----------------------------------------------------------------------------
(* The WebSocket claims C13 to C16.                                        *)

\* C13: connect_to_websocket on a session that holds no bearer token neither
\* aborts nor sends an authentication frame: the call ends with an error
\* value, and unless the URL or the handshake failed first that error is the
\* missing-token error.
C13_MissingTokenIsAnError ==
    ~IsSome(auth_token) =>
        /\ ws_state \in {"Disconnected", "Authenticating", "Failed"}
        /\ Challenges = {}
        /\ (ws_state = "Failed" /\ ~ws_result.v.ok) =>
              \/ ws_result.v.err = "UrlError"
              \/ ws_result.v.info = "connect"
              \/ ws_result.v.err = "MissingAuthToken"

FailedPings == {i \in Pings : ~outbound[i].sent}

\* this step is a tick whose ping could not be sent
PingSendFails ==
    /\ Len(outbound') = Len(outbound) + 1
    /\ outbound'[Len(outbound')].message = PingMessage
    /\ ~outbound'[Len(outbound')].sent

\* C14: with keep-alive, a tick whose ping cannot be sent changes nothing but
\* the record of the attempt: the loop stays in Streaming, returns nothing,
\* and the inbound stream is as open to the next frame as before.
C14_PingFailureIsNotFatal ==
    [][PingSendFails =>
          /\ ws_keep_alive
          /\ ws_state = "Streaming"
          /\ UNCHANGED <<ws_state, ws_result, stream, inbox, delivered>>]_vars

\* a frame was read and handed to the handler after a failed ping
C14_Witness ==
    \E i \in FailedPings :
        /\ Len(inbox) > outbound[i].read
        /\ Len(delivered) > outbound[i].called
        /\ ws_state = "Streaming"

\* C15: with keep-alive and the loop in Streaming, a due tick leads to a ping
\* send attempt (or the loop has left Streaming), whatever the inbound
\* stream does: frames arriving, no frames, or the stream ended.
C15_TickLeadsToPing ==
    \A n \in 0..(MaxPings - 1) :
        (ws_keep_alive /\ ws_state = "Streaming" /\ Cardinality(Pings) = n)
            ~> (Cardinality(Pings) > n \/ ws_state # "Streaming")

\* a ping was attempted after every frame the stream had to give was read
C15_Witness ==
    /\ ws_keep_alive
    /\ stream = "ended"
    /\ \E i \in Pings : outbound[i].read = Len(inbox) /\ outbound[i].read > 0

\* one more turn of receive_events' loop that does something
LoopStep ==
    \/ \E message \in InboundMessages : ReceiveMessage(message)
    \/ ReceiveError
    \/ StreamEnd
    \/ \E send_ok \in BOOLEAN : PingTick(send_ok)

Returned == ws_state \in {"Closed", "Failed"}

\* C16: once the inbound stream has ended, receive_events has returned or is
\* still on its way to returning: it is never left in Streaming with nothing
\* further that it can do.
C16_StreamEndTerminates ==
    (stream = "ended" /\ ws_state # "Disconnected") => (Returned \/ ENABLED LoopStep)
====
